---- MODULE Spec2Model ----
(***************************************************************************)
(* A model of advanced_organizer.py: the organize / undo engine, its move  *)
(* history artifact and the filesystem it acts on.                         *)
(*                                                                         *)
(* Paths are sequences of names.  A name is <<base, ctrs, suffix>>: base   *)
(* is the sequence of text tokens of the stem, ctrs the counters that      *)
(* make_unique_path appended ("a_1_2.jpg" has ctrs <<1, 2>>) and suffix    *)
(* is Path.suffix ("" when the name has no dot).  Path.stem is             *)
(* <<base, ctrs>>.  The empty path stands for "no such file".              *)
(*                                                                         *)
(* The filesystem holds directories and entries; an entry is a regular     *)
(* file or a symbolic link to a path.  Path.exists, Path.is_file and       *)
(* Path.stat follow links (a dangling link does not "exist"); os.rename    *)
(* acts on the entry itself and replaces whatever non-directory entry is   *)
(* at the destination.                                                     *)
(***************************************************************************)
EXTENDS Integers, Sequences, FiniteSets, TLC

\* ---------------------------------------------------------------- bounds
MaxFiles == 2
MaxOps == 3
MaxExternal == 1
MaxFaults == 1
MaxTargetOps == 2
MaxWorkers == 2
MaxConcOps == 3
MaxSlots == 3
MaxCategories == 2
MaxScanFiles == 3
MaxStackOps == 4
MaxTimers == 4
MaxMinutes == 2
MaxExtsPerCategory == 2

\* ------------------------------------------------------------------ state
VARIABLES
  fs,        \* [FileIds -> path]: where each entry is (Absent: nowhere)
  lnk,       \* [FileIds -> path]: what it links to (Absent: a regular file)
  dirs,      \* the directories that exist
  hist,      \* the runs held by the move history artifact
  last,      \* what the last operation was given, did and reported
  opCount,   \* organize / undo calls so far
  extCount,  \* changes made to the directory from outside so far
  faults,    \* operating-system failures so far
  threads,   \* the organize workers and the undo under way: where each
             \* stands between its load and its save of the history
  config,    \* what config.json is: missing, malformed, or a mapping
  self_ext_map, \* self.ext_map: the categories, in the order of the mapping
  art,       \* what the move history artifact is: a list of runs (hist),
             \* missing, text that does not parse, or a parsed value that
             \* is no list
  content,   \* [ids -> the digest of each regular file's bytes, their
             \* number, and whether the file can be opened for reading]
  sched      \* the scheduler: self.current_target, self.scheduled_task,
             \* the threading.Timer objects created so far, and where the
             \* GUI thread stands inside schedule_organizer_gui

vars == <<fs, lnk, dirs, hist, last, opCount, extCount, faults, threads,
         config, self_ext_map, art, content, sched>>


FileIds == 1..MaxFiles

\* ------------------------------------------------------------- constants
DEFAULT_OTHER == "Others"

DEFAULT_EXT_MAP ==
  << <<"Images", {".jpg", ".jpeg", ".png", ".gif", ".bmp", ".tiff", ".webp", ".heic"}>>,
     <<"Videos", {".mp4", ".mkv", ".mov", ".avi", ".wmv", ".flv", ".webm"}>>,
     <<"Documents", {".pdf", ".doc", ".docx", ".ppt", ".pptx", ".xls", ".xlsx",
                     ".odt", ".txt", ".md"}>>,
     <<"Archives", {".zip", ".rar", ".7z", ".tar", ".gz", ".bz2"}>>,
     <<"Code", {".py", ".js", ".ts", ".java", ".c", ".cpp", ".cs", ".html", ".css",
                ".go", ".rs"}>>,
     <<"Music", {".mp3", ".wav", ".flac", ".aac", ".m4a", ".ogg"}>> >>

\* ----------------------------------------------------------------- names
Nm(base, suffix) == << <<base>>, <<>>, suffix >>

Suffix(n) == n[3]

\* f"{stem}_{counter}{suffix}"
WithCounter(n, counter) == << n[1], Append(n[2], counter), n[3] >>

\* str.lower() on the extensions the model uses
StartsWithDot(ext) ==
  ext \in {".jpg", ".JPG", ".Jpg", ".txt", ".TXT", ".md", ".Md", ".xyz"}

\* f".{ext}"
Dotted(ext) ==
  CASE ext = "jpg" -> ".jpg"
    [] ext = "txt" -> ".txt"
    [] ext = "" -> "."
    [] OTHER -> ext

Lower(ext) ==
  CASE ext = ".JPG" -> ".jpg"
    [] ext = ".Jpg" -> ".jpg"
    [] ext = ".TXT" -> ".txt"
    [] ext = ".Md" -> ".md"
    [] ext = "JPG" -> "jpg"
    [] OTHER -> ext

\* ----------------------------------------------------------------- paths
Absent == <<>>

Root == << Nm("root", "") >>

Parent(p) == SubSeq(p, 1, Len(p) - 1)

Name(p) == p[Len(p)]

Join(d, n) == Append(d, n)

\* d is a proper ancestor of p
IsPrefix(d, p) == Len(d) < Len(p) /\ SubSeq(p, 1, Len(d)) = d

\* ------------------------------------------------------------ filesystem
\* A filesystem st is [fs, lnk, dirs]: fs[i] is the path of entry i (Absent:
\* nowhere), lnk[i] the path it links to (Absent: a regular file), dirs the
\* directories.
EntryPaths(st) == { st.fs[i] : i \in DOMAIN st.fs } \ {Absent}

\* os.path.lexists
LExists(st, p) == p \in EntryPaths(st) \/ p \in st.dirs

EntryAt(st, p) == CHOOSE i \in DOMAIN st.fs : st.fs[i] = p

IsLink(st, p) == p \in EntryPaths(st) /\ st.lnk[EntryAt(st, p)] # Absent

\* where p leads once its links are followed (Absent: a loop)
RECURSIVE Resolve(_, _, _)
Resolve(st, p, fuel) ==
  IF ~IsLink(st, p) THEN p
  ELSE IF fuel = 0 THEN Absent
  ELSE Resolve(st, st.lnk[EntryAt(st, p)], fuel - 1)

Target(st, p) == Resolve(st, p, Cardinality(DOMAIN st.fs))

\* Path.is_file
IsFile(st, p) == Target(st, p) \in EntryPaths(st)

\* Path.is_dir
IsDir(st, p) == Target(st, p) \in st.dirs

\* Path.exists
Exists(st, p) == IsFile(st, p) \/ IsDir(st, p)

\* the regular file that Path.stat and open reach through p
FileAt(st, p) == EntryAt(st, Target(st, p))

\* modification time <<year, month>> of a file; it does not change on a move
Mtime(i) == IF i = 2 THEN <<2023, 12>> ELSE <<2024, 1>>

\* ------------------------------------------------------------ classifier
RECURSIVE FirstCategory(_, _, _)
FirstCategory(ext_map, ext, k) ==
  IF k > Len(ext_map) THEN DEFAULT_OTHER
  ELSE IF ext \in ext_map[k][2] THEN ext_map[k][1]
  ELSE FirstCategory(ext_map, ext, k + 1)

\* a plausible bug: the extension is looked up as it is spelled
find_category_by_ext_cased(ext_map, ext) == FirstCategory(ext_map, ext, 1)

find_category_by_ext(ext_map, ext) == FirstCategory(ext_map, Lower(ext), 1)

\* config.json: kind is "missing", "malformed" or "mapping"; data is the
\* mapping as written, a sequence of <<category, extensions>>
NoConfig == [kind |-> "missing", data |-> <<>>]

\* load_config: every extension of the mapping in lower case with a leading
\* dot; the default table when config.json is missing or does not load
load_config(file) ==
  IF file.kind = "mapping"
  THEN [k \in DOMAIN file.data |->
          << file.data[k][1],
             { IF StartsWithDot(ext) THEN Lower(ext) ELSE Dotted(Lower(ext)) :
                 ext \in file.data[k][2] } >>]
  ELSE DEFAULT_EXT_MAP

\* -------------------------------------------------------- path allocator
RECURSIVE UniqueFrom(_, _, _)
UniqueFrom(st, dest, counter) ==
  LET candidate == Join(Parent(dest), WithCounter(Name(dest), counter))
  IN  IF ~Exists(st, candidate) THEN candidate
      ELSE UniqueFrom(st, dest, counter + 1)

make_unique_path(st, dest) ==
  IF ~Exists(st, dest) THEN dest ELSE UniqueFrom(st, dest, 1)

\* ------------------------------------------------------------ enumeration
\* Path.rglob("*") yields nothing when target is not a directory;
\* Path.iterdir() raises (FileNotFoundError, NotADirectoryError) there.
\* The filter is Path.is_file, which follows links.
list_files(st, target, recursive) ==
  IF recursive
  THEN [raised |-> FALSE,
        files |-> IF IsDir(st, target)
                  THEN { p \in EntryPaths(st) : IsPrefix(target, p) /\ IsFile(st, p) }
                  ELSE {}]
  ELSE IF IsDir(st, target)
       THEN [raised |-> FALSE,
             files |-> { p \in EntryPaths(st) : Parent(p) = target /\ IsFile(st, p) }]
       ELSE [raised |-> TRUE, files |-> {}]

\* the orders in which the filesystem may enumerate a set of paths
Orders(S) ==
  { s \in [1..Cardinality(S) -> S] : \A i, j \in DOMAIN s : i # j => s[i] # s[j] }

\* ------------------------------------------------- filesystem primitives
Ancestors(d) == { SubSeq(d, 1, k) : k \in 1..Len(d) }

\* Path.mkdir(parents=True, exist_ok=True)
mkdir(st, d) ==
  IF \E a \in Ancestors(d) : a \in EntryPaths(st)
  THEN [ok |-> FALSE, st |-> st]
  ELSE [ok |-> TRUE, st |-> [st EXCEPT !.dirs = @ \cup Ancestors(d)]]

Rebase(p, from, to) ==
  IF p = from THEN to
  ELSE IF IsPrefix(from, p) THEN to \o SubSeq(p, Len(from) + 1, Len(p))
  ELSE p

\* shutil.move(src, dst) on one device: os.rename of the entry at src, which
\* replaces a file or link at the destination
shutil_move(st, src, dst) ==
  LET real_dst == IF IsDir(st, dst) THEN Join(dst, Name(src)) ELSE dst
  IN  IF \/ ~LExists(st, src)
         \/ (IsDir(st, dst) /\ Exists(st, real_dst))
         \/ ~IsDir(st, Parent(real_dst))
         \/ (src \in st.dirs /\ real_dst \in EntryPaths(st))
      THEN [ok |-> FALSE, st |-> st]
      ELSE [ok |-> TRUE,
            st |-> [fs |-> [i \in DOMAIN st.fs |->
                              IF st.fs[i] = real_dst /\ real_dst # src THEN Absent
                              ELSE Rebase(st.fs[i], src, real_dst)],
                    lnk |-> [i \in DOMAIN st.fs |->
                              IF st.fs[i] = real_dst /\ real_dst # src THEN Absent
                              ELSE st.lnk[i]],
                    dirs |-> { Rebase(d, src, real_dst) : d \in st.dirs }]]

\* ------------------------------------------------------- date formatting
Digit(d) == <<"0", "1", "2", "3", "4", "5", "6", "7", "8", "9">>[d + 1]

RECURSIVE Decimal(_)
Decimal(n) == IF n < 10 THEN <<Digit(n)>> ELSE Append(Decimal(n \div 10), Digit(n % 10))

\* f"{month:02d}"
Pad2(m) == IF m < 10 THEN <<"0">> \o Decimal(m) ELSE Decimal(m)

\* f"{mtime.year}-{mtime.month:02d}"
folder_name(mtime) == << Decimal(mtime[1]) \o <<"-">> \o Pad2(mtime[2]), <<>>, "" >>

\* -------------------------------------------------------- organize engine
\* A move record {"src", "dst", "time", "dry"}; the timestamp is left out,
\* nothing in the program reads it back.
MoveRecord(src, dst, dry) == [src |-> src, dst |-> dst, dry |-> dry]

\* The destination folder of file f: target / category, or target / "YYYY-MM".
dest_dir_of(st, target, mode, f) ==
  IF mode = "type"
  THEN Join(target, Nm(find_category_by_ext(self_ext_map, Lower(Suffix(Name(f)))), ""))
  ELSE Join(target, folder_name(Mtime(FileAt(st, f))))

\* The for-loop of organize_by_type / organize_by_date from file k on.
\* acc is [st, moves, performed, visited, raised, refused, taken]: the
\* filesystem, the records appended so far, the moves done on the filesystem
\* so far, the number of files the loop reached, whether an exception has
\* left the loop, whether it was the operating system refusing shutil.move
\* for file cfg.failAt (0: it refuses none), and for each record the paths
\* that were taken when its destination was chosen.
RECURSIVE organize_loop(_, _, _, _)
organize_loop(files, k, cfg, acc) ==
  IF k > Len(files) \/ acc.raised THEN acc
  ELSE
    LET f == files[k]
        statOk == cfg.mode = "type" \/ Exists(acc.st, f)
    IN  IF ~statOk THEN [acc EXCEPT !.raised = TRUE, !.visited = k]
        ELSE
          LET made == mkdir(acc.st, dest_dir_of(acc.st, cfg.target, cfg.mode, f))
          IN  IF ~made.ok THEN [acc EXCEPT !.raised = TRUE, !.visited = k]
              ELSE
                LET dest == make_unique_path(
                              made.st,
                              Join(dest_dir_of(acc.st, cfg.target, cfg.mode, f), Name(f)))
                    rec == MoveRecord(f, dest, cfg.dry)
                    moved == IF cfg.failAt = k
                             THEN [ok |-> FALSE, st |-> made.st]
                             ELSE shutil_move(made.st, f, dest)
                IN  IF cfg.dry
                    THEN organize_loop(files, k + 1, cfg,
                           [acc EXCEPT !.st = made.st, !.moves = Append(@, rec),
                                       !.taken = Append(@, EntryPaths(made.st) \cup made.st.dirs),
                                       !.visited = k])
                    ELSE IF ~moved.ok
                    THEN [acc EXCEPT !.st = made.st, !.raised = TRUE,
                                     !.visited = k, !.refused = (cfg.failAt = k)]
                    ELSE organize_loop(files, k + 1, cfg,
                           [acc EXCEPT !.st = moved.st,
                                       !.moves = Append(@, rec),
                                       !.performed = Append(@, rec),
                                       !.taken = Append(@, EntryPaths(made.st) \cup made.st.dirs),
                                       !.visited = k])

\* organize_by_type / organize_by_date: files is list_files' result in the
\* order the filesystem gave it.
organize(st, listed, files, cfg) ==
  IF listed.raised
  THEN [st |-> st, moves |-> <<>>, performed |-> <<>>, visited |-> 0,
        raised |-> TRUE, refused |-> FALSE, taken |-> <<>>]
  ELSE organize_loop(files, 1, cfg,
         [st |-> st, moves |-> <<>>, performed |-> <<>>, visited |-> 0,
          raised |-> FALSE, refused |-> FALSE, taken |-> <<>>])

\* a plausible bug: the dry flag is not consulted before persisting
persist_run_any(moves, dry) == moves # <<>>

\* "if moves and not dry:" of run_organize.worker
persist_run(moves, dry) == moves # <<>> /\ ~dry

\* a run record {"run_time", "target", "moves"}, run_time left out
RunRecord(target, moves) == [target |-> target, moves |-> moves]

\* a plausible bug: the loaded history is dropped and only the run is kept
history_replace(history, run) == <<run>>

\* history.append(run) on the loaded history
history_append(history, run) == Append(history, run)

\* ------------------------------------------------------------ undo engine
\* The for-loop of undo_last over reversed(moves), from record k down.
\* acc is [st, raised, visited, restores]: visited counts the records the
\* loop reached, restores lists what each restore did: the record's src and
\* dst, the path the entry at dst was moved to, the entry moved (0: a
\* directory), what occupied src at that moment (an entry or 0 and what it
\* linked to, a directory or not) and the paths taken at that moment.
RECURSIVE undo_loop(_, _, _, _)
undo_loop(moves, k, failAt, acc) ==
  IF k < 1 \/ acc.raised THEN acc
  ELSE
    LET rec == moves[k]
        seen == [acc EXCEPT !.visited = @ + 1]
    IN  IF rec.dry \/ ~Exists(acc.st, rec.dst)
        THEN undo_loop(moves, k - 1, failAt, seen)
        ELSE
          LET to == make_unique_path(acc.st, rec.src)
              moved == IF failAt = k
                       THEN [ok |-> FALSE, st |-> acc.st]
                       ELSE shutil_move(acc.st, rec.dst, to)
          IN  IF ~moved.ok THEN [seen EXCEPT !.raised = TRUE]
              ELSE undo_loop(moves, k - 1, failAt,
                     [st |-> moved.st,
                      raised |-> FALSE,
                      visited |-> seen.visited,
                      restores |-> Append(acc.restores,
                         [src |-> rec.src,
                          dst |-> rec.dst,
                          to |-> to,
                          file |-> IF rec.dst \in EntryPaths(acc.st)
                                   THEN EntryAt(acc.st, rec.dst) ELSE 0,
                          occFile |-> IF rec.src \in EntryPaths(acc.st)
                                      THEN EntryAt(acc.st, rec.src) ELSE 0,
                          occLink |-> IF IsLink(acc.st, rec.src)
                                      THEN acc.st.lnk[EntryAt(acc.st, rec.src)]
                                      ELSE Absent,
                          occDir |-> rec.src \in acc.st.dirs,
                          existing |-> EntryPaths(acc.st) \cup acc.st.dirs])])

undo_moves(st, moves, failAt) ==
  undo_loop(moves, Len(moves), failAt,
            [st |-> st, raised |-> FALSE, visited |-> 0, restores |-> <<>>])

\* ------------------------------------------------------- current state
Cur == [fs |-> fs, lnk |-> lnk, dirs |-> dirs]

\* what the history file holds besides a list of runs: no file at all,
\* text that is not JSON, a JSON object with members, JSON null
ArtifactKinds == {"list", "missing", "garbage", "object", "null"}

\* load_move_history: the empty list when the file is missing or json.load
\* raises, else whatever value json.load returns
load_move_history(art_, hist_) ==
  CASE art_ = "list" -> [kind |-> "list", runs |-> hist_]
    [] art_ \in {"missing", "garbage"} -> [kind |-> "list", runs |-> <<>>]
    [] OTHER -> [kind |-> art_, runs |-> <<>>]

\* bool(history) of undo_last's "if not history"
truthy(history) ==
  CASE history.kind = "list" -> history.runs # <<>>
    [] history.kind = "object" -> TRUE
    [] OTHER -> FALSE

\* whether the loaded value has list.append and list.pop
is_list(history) == history.kind = "list"

\* MOVE_HISTORY is a path relative to the working directory: when the
\* program is started in the folder it organizes, the history file is
\* root/move_history.json, an entry of the tree; ArtIds are the entries
\* that the saves of such a run create
MOVE_HISTORY == <<Root[1], Nm("move_history", ".json")>>
ArtIds == { 100 + k : k \in 1..MaxOps }

\* whether the working directory is the folder that is organized
InTree(st) == ArtIds \subseteq DOMAIN st.fs

\* the history file as load_move_history finds it once the moves are done:
\* missing when it was one of the files moved
artifact_after(st, art_) ==
  IF InTree(st) /\ MOVE_HISTORY \notin EntryPaths(st) THEN "missing" ELSE art_

\* save_move_history: open(MOVE_HISTORY, "w") creates the file when there
\* is none
save_move_history(st) ==
  IF InTree(st) /\ MOVE_HISTORY \notin EntryPaths(st)
  THEN LET i == CHOOSE i \in ArtIds : st.fs[i] = Absent IN
       [st EXCEPT !.fs = [st.fs EXCEPT ![i] = MOVE_HISTORY]]
  ELSE st

\* ------------------------------------------------------ initial directory
A_JPG == Nm("a", ".jpg")
B_TXT == Nm("b", ".txt")
C_XYZ == Nm("c", ".xyz")
IMAGES == Nm("Images", "")
SUB == Nm("sub", "")

L_JPG == Nm("l", ".jpg")
GONE == Nm("gone", "")

\* what entry i may be when the program starts: <<path, link>>
Cand(i) ==
  CASE i = 1 -> { <<Absent, Absent>>,
                  <<<<Root[1], A_JPG>>, Absent>>,
                  <<<<Root[1], IMAGES, A_JPG>>, Absent>>,
                  <<<<Root[1], SUB, A_JPG>>, Absent>> }
    [] i = 2 -> { <<Absent, Absent>>,
                  <<<<Root[1], B_TXT>>, Absent>>,
                  <<<<Root[1], IMAGES>>, Absent>>,
                  <<<<Root[1], A_JPG>>, Absent>>,
                  <<<<Root[1], L_JPG>>, <<Root[1], SUB, A_JPG>>>>,
                  <<<<Root[1], IMAGES, A_JPG>>, <<Root[1], SUB, A_JPG>>>> }
    [] OTHER -> { <<Absent, Absent>>, <<<<Root[1], SUB, C_XYZ>>, Absent>> }

\* what may be put from outside while the program runs: a file, or a link
\* to a path where nothing is
CreateChoices ==
  { <<<<Root[1], A_JPG>>, Absent>>,
    <<<<Root[1], B_TXT>>, Absent>>,
    <<<<Root[1], A_JPG>>, <<Root[1], GONE>>>> }

\* the target folders a caller may name: the root, a path that does not
\* exist, and a path that is a regular file whenever b.txt is present
NoSuchDir == << Nm("nodir", "") >>
Targets == { Root, NoSuchDir, <<Root[1], B_TXT>> }

\* no two entries at one path, and no entry below another
WellFormedOn(f) ==
  /\ \A i, j \in DOMAIN f : i # j /\ f[i] # Absent => f[i] # f[j]
  /\ \A i, j \in DOMAIN f : f[i] # Absent /\ f[j] # Absent => ~IsPrefix(f[i], f[j])

WellFormed(f) == WellFormedOn(f)

\* a thread that is not between a load and a save
Idle == [pc |-> "idle", run |-> <<>>, loaded |-> <<>>, local |-> <<>>]

\* no worker and no undo under way; saves and pops count the saves of the
\* history that workers and undos completed, stale tells whether one of
\* them wrote over a history that was no longer the one it had loaded
Quiescent ==
  [w |-> [i \in 1..MaxWorkers |-> Idle], u |-> Idle,
   saves |-> 0, pops |-> 0, stale |-> FALSE]

\* the runs in progress of being stacked and unstacked: phase "up" while
\* non-dry runs that moved something follow one another, "down" while
\* undo_last calls follow them, depth the runs not yet undone, origin the
\* files and the history before the first of the runs; NoChain when some
\* other operation came in between
NoChain == [phase |-> "none", depth |-> 0, origin |-> <<>>]

\* after a run_organize: counted tells whether it was a non-dry run that
\* moved a file and that the operating system refused nothing
chain_after_organize(chain, counted, snapshot) ==
  IF ~counted THEN NoChain
  ELSE IF chain.phase = "up" THEN [chain EXCEPT !.depth = @ + 1]
  ELSE [phase |-> "up", depth |-> 1, origin |-> snapshot]

\* after an undo_last that the operating system refused nothing
chain_after_undo(chain, counted) ==
  IF counted /\ chain.phase \in {"up", "down"} /\ chain.depth > 0
  THEN [chain EXCEPT !.phase = "down", !.depth = @ - 1]
  ELSE NoChain

\* no timer created, no target folder chosen, the GUI thread outside of
\* schedule_organizer_gui
NoSchedule ==
  [current_target |-> FALSE, scheduled_task |-> 0, timers |-> <<>>,
   gui |-> [pc |-> "idle", minutes |-> 0], interval |-> 0]

NoOp(f, l, d, h) ==
  [op |-> "init", target |-> Absent, mode |-> "", dry |-> FALSE, recursive |-> FALSE,
   files |-> <<>>, moves |-> <<>>, performed |-> <<>>, raised |-> FALSE,
   outcome |-> "", count |-> 0, visited |-> 0, restores |-> <<>>,
   saveFailed |-> FALSE, appendFailed |-> FALSE, artBefore |-> "list",
   chain |-> NoChain,
   taken |-> <<>>, arg |-> <<>>, result |-> <<>>, fsBefore |-> f, lnkBefore |-> l, dirsBefore |-> d, histBefore |-> h]

Init ==
  /\ \E e \in [FileIds -> UNION { Cand(i) : i \in FileIds }] :
       /\ \A i \in FileIds : e[i] \in Cand(i)
       /\ fs = [i \in FileIds |-> e[i][1]]
       /\ lnk = [i \in FileIds |-> e[i][2]]
  /\ WellFormed(fs)
  /\ dirs = {Root} \cup UNION { Ancestors(Parent(fs[i])) : i \in FileIds }
  /\ hist = <<>>
  /\ last = NoOp(fs, lnk, dirs, hist)
  /\ opCount = 0
  /\ extCount = 0
  /\ faults = 0
  /\ threads = Quiescent
  /\ config = NoConfig
  /\ self_ext_map = load_config(config)
  /\ art = "list"
  /\ sched = NoSchedule
  /\ content = [i \in DOMAIN fs |-> [digest |-> i, size |-> i, readable |-> TRUE]]

\* ---------------------------------------------------------------- actions
B2N(b) == IF b THEN 1 ELSE 0

\* run_organize's worker for a target among targets, at most maxOps calls
\* in all: organize, persist the run, report.  failAt and saveFails are the
\* operating system's refusals (a shutil.move that raises, a history file
\* that cannot be written).
RunOrganize(targets, maxOps) ==
  /\ opCount < maxOps
  /\ \E target \in targets, mode \in {"type", "date"}, dry \in BOOLEAN,
        recursive \in BOOLEAN :
       LET listed == list_files(Cur, target, recursive) IN
       \E files \in Orders(listed.files),
          failAt \in 0..(IF dry THEN 0 ELSE Cardinality(listed.files)),
          saveFails \in BOOLEAN :
         /\ faults + B2N(failAt > 0) + B2N(saveFails) <= MaxFaults
         /\ \E r \in { organize(Cur, listed, files,
                                [target |-> target, mode |-> mode, dry |-> dry,
                                 failAt |-> failAt]) } :
              LET found == artifact_after(r.st, art)
                  history == load_move_history(found, hist)
                  appending == ~r.raised /\ persist_run(r.moves, dry)
                  saving == appending /\ is_list(history)
                  saved == IF saving /\ ~saveFails THEN save_move_history(r.st)
                           ELSE r.st
              IN
              /\ failAt > 0 => r.refused
              /\ saveFails => saving
              /\ fs' = saved.fs
              /\ lnk' = saved.lnk
              /\ dirs' = saved.dirs
              /\ hist' = IF saving /\ ~saveFails
                         THEN history_append(history.runs, RunRecord(target, r.moves))
                         ELSE history.runs
              /\ art' = IF saving /\ ~saveFails THEN "list" ELSE found
              /\ last' = [NoOp(fs, lnk, dirs, hist) EXCEPT
                            !.op = "organize", !.target = target, !.mode = mode,
                            !.dry = dry, !.recursive = recursive, !.files = files,
                            !.moves = IF r.raised THEN <<>> ELSE r.moves,
                            !.performed = r.performed, !.visited = r.visited,
                            !.taken = r.taken,
                            !.raised = r.raised,
                            !.appendFailed = appending /\ ~saving,
                            !.artBefore = art,
                            !.chain = chain_after_organize(
                                        last.chain,
                                        ~dry /\ r.performed # <<>>
                                             /\ failAt = 0 /\ ~saveFails,
                                        [fs |-> fs, lnk |-> lnk, hist |-> hist]),
                            !.outcome = IF r.raised \/ (appending /\ ~saving)
                                        THEN "error" ELSE "completed",
                            !.count = IF r.raised \/ (appending /\ ~saving)
                                      THEN 0 ELSE Len(r.moves),
                            !.saveFailed = saveFails]
              /\ opCount' = opCount + 1
              /\ faults' = faults + B2N(failAt > 0) + B2N(saveFails)
              /\ UNCHANGED <<extCount, threads, config, self_ext_map, content, sched>>

\* Run Organizer on the root folder
Organize == RunOrganize({Root}, MaxOps)

\* Run Organizer on whatever the target entry holds
OrganizeAnywhere == RunOrganize(Targets, MaxTargetOps)

\* undo_last when the loaded history is empty or false: "No history"
UndoNothingWithin(maxOps) ==
  /\ opCount < maxOps
  /\ ~truthy(load_move_history(art, hist))
  /\ last' = [NoOp(fs, lnk, dirs, hist) EXCEPT !.op = "undo", !.outcome = "nohistory",
                                             !.artBefore = art,
                                             !.chain = chain_after_undo(last.chain, TRUE)]
  /\ opCount' = opCount + 1
  /\ UNCHANGED <<fs, lnk, dirs, hist, extCount, faults, threads, config, self_ext_map, art, content, sched>>

\* undo_last on a history with runs: pop the last run, move its files back
\* in reverse, save the history, report "Restored <len(moves)> files".  A
\* shutil.move that raises leaves undo_last before the save and the report.
UndoLastWithin(maxOps) ==
  /\ opCount < maxOps
  /\ truthy(load_move_history(art, hist))
  /\ is_list(load_move_history(art, hist))
  /\ LET moves == hist[Len(hist)].moves IN
     \E failAt \in 0..Len(moves), saveFails \in BOOLEAN :
       /\ faults + B2N(failAt > 0) + B2N(saveFails) <= MaxFaults
       /\ \E r \in { undo_moves(Cur, moves, failAt) } :
            /\ failAt > 0 => r.raised
            /\ saveFails => ~r.raised
            /\ fs' = r.st.fs
            /\ lnk' = r.st.lnk
            /\ dirs' = r.st.dirs
            /\ hist' = IF r.raised \/ saveFails THEN hist
                       ELSE SubSeq(hist, 1, Len(hist) - 1)
            /\ last' = [NoOp(fs, lnk, dirs, hist) EXCEPT
                          !.op = "undo", !.moves = moves, !.raised = r.raised,
                          !.outcome = IF r.raised THEN "error" ELSE "restored",
                          !.count = IF r.raised THEN 0 ELSE Len(moves),
                          !.visited = r.visited, !.restores = r.restores,
                          !.artBefore = art, !.saveFailed = saveFails,
                          !.chain = chain_after_undo(last.chain,
                                                     failAt = 0 /\ ~saveFails)]
            /\ opCount' = opCount + 1
            /\ faults' = faults + B2N(failAt > 0) + B2N(saveFails)
            /\ UNCHANGED <<extCount, threads, config, self_ext_map, art, content, sched>>

\* Undo Last, at most MaxOps operations in all
UndoNothing == UndoNothingWithin(MaxOps)

UndoLast == UndoLastWithin(MaxOps)

\* undo_last when the loaded history is true and no list: history.pop()
\* raises out of the handler before anything is moved or saved
UndoCorrupt ==
  /\ opCount < MaxOps
  /\ truthy(load_move_history(art, hist))
  /\ ~is_list(load_move_history(art, hist))
  /\ last' = [NoOp(fs, lnk, dirs, hist) EXCEPT !.op = "undo", !.raised = TRUE,
                                             !.outcome = "error", !.artBefore = art]
  /\ opCount' = opCount + 1
  /\ UNCHANGED <<fs, lnk, dirs, hist, extCount, faults, threads, config, self_ext_map, art, content, sched>>

\* The user puts a file or a link into the directory between two operations of the
\* program (the directories the program starts on are Init's).
ExternalCreate ==
  /\ extCount < MaxExternal
  /\ 0 < opCount /\ opCount < MaxOps
  /\ \E i \in FileIds, c \in CreateChoices :
       /\ fs[i] = Absent
       /\ ~LExists(Cur, c[1])
       /\ IsDir(Cur, Parent(c[1]))
       /\ fs' = [fs EXCEPT ![i] = c[1]]
       /\ lnk' = [lnk EXCEPT ![i] = c[2]]
       /\ last' = [NoOp(fs, lnk, dirs, hist) EXCEPT !.op = "external"]
       /\ extCount' = extCount + 1
       /\ UNCHANGED <<dirs, hist, opCount, faults, threads, config, self_ext_map, art, content, sched>>

\* the user deletes a file or a link between two operations of the program
ExternalDelete ==
  /\ extCount < MaxExternal
  /\ 0 < opCount /\ opCount < MaxOps
  /\ \E i \in FileIds :
       /\ fs[i] # Absent
       /\ fs' = [fs EXCEPT ![i] = Absent]
       /\ lnk' = [lnk EXCEPT ![i] = Absent]
       /\ last' = [NoOp(fs, lnk, dirs, hist) EXCEPT !.op = "external"]
       /\ extCount' = extCount + 1
       /\ UNCHANGED <<dirs, hist, opCount, faults, threads, config, self_ext_map, art, content, sched>>

Next == Organize \/ UndoNothing \/ UndoLast \/ ExternalCreate \/ ExternalDelete

Spec == Init /\ [][Next]_vars

\* the same program with the target folder left to the caller
NextAnywhere == OrganizeAnywhere \/ UndoNothing \/ UndoLast

SpecAnywhere == Init /\ [][NextAnywhere]_vars

\* the same program started on a history file that is missing or does not
\* hold a list of runs
InitCorrupt ==
  /\ \E e \in [FileIds -> UNION { Cand(i) : i \in FileIds }] :
       /\ \A i \in FileIds : e[i] \in Cand(i)
       /\ fs = [i \in FileIds |-> e[i][1]]
       /\ lnk = [i \in FileIds |-> e[i][2]]
  /\ WellFormed(fs)
  /\ dirs = {Root} \cup UNION { Ancestors(Parent(fs[i])) : i \in FileIds }
  /\ hist = <<>>
  /\ last = NoOp(fs, lnk, dirs, hist)
  /\ opCount = 0
  /\ extCount = 0
  /\ faults = 0
  /\ threads = Quiescent
  /\ config = NoConfig
  /\ self_ext_map = load_config(config)
  /\ art \in ArtifactKinds \ {"list"}
  /\ sched = NoSchedule
  /\ content = [i \in DOMAIN fs |-> [digest |-> i, size |-> i, readable |-> TRUE]]

NextCorrupt == Organize \/ UndoNothing \/ UndoLast \/ UndoCorrupt

SpecCorrupt == InitCorrupt /\ [][NextCorrupt]_vars

\* the same program on a folder nobody else touches and an operating system
\* that refuses nothing, for runs stacked two deep
InitStacked ==
  /\ \E e \in [FileIds -> UNION { Cand(i) : i \in FileIds }] :
       /\ \A i \in FileIds : e[i] \in Cand(i)
       /\ fs = [i \in FileIds |-> e[i][1]]
       /\ lnk = [i \in FileIds |-> e[i][2]]
  /\ WellFormed(fs)
  /\ dirs = {Root} \cup UNION { Ancestors(Parent(fs[i])) : i \in FileIds }
  /\ hist = <<>>
  /\ last = NoOp(fs, lnk, dirs, hist)
  /\ opCount = 0
  /\ extCount = 0
  /\ faults = MaxFaults
  /\ threads = Quiescent
  /\ config = NoConfig
  /\ self_ext_map = load_config(config)
  /\ art = "list"
  /\ sched = NoSchedule
  /\ content = [i \in DOMAIN fs |-> [digest |-> i, size |-> i, readable |-> TRUE]]

OrganizeStacked == RunOrganize({Root}, MaxStackOps)

UndoNothingStacked == UndoNothingWithin(MaxStackOps)

UndoLastStacked == UndoLastWithin(MaxStackOps)

NextStacked == OrganizeStacked \/ UndoNothingStacked \/ UndoLastStacked

SpecStacked == InitStacked /\ [][NextStacked]_vars

\* the same program started in the folder it organizes, before any history
\* file was written
InitInPlace ==
  /\ \E e \in [FileIds -> UNION { Cand(i) : i \in FileIds }] :
       /\ \A i \in FileIds : e[i] \in Cand(i)
       /\ fs = [i \in FileIds \cup ArtIds |-> IF i \in FileIds THEN e[i][1] ELSE Absent]
       /\ lnk = [i \in FileIds \cup ArtIds |-> IF i \in FileIds THEN e[i][2] ELSE Absent]
  /\ WellFormed(fs)
  /\ dirs = {Root} \cup UNION { Ancestors(Parent(fs[i])) : i \in FileIds }
  /\ hist = <<>>
  /\ last = NoOp(fs, lnk, dirs, hist)
  /\ opCount = 0
  /\ extCount = 0
  /\ faults = 0
  /\ threads = Quiescent
  /\ config = NoConfig
  /\ self_ext_map = load_config(config)
  /\ art = "missing"
  /\ sched = NoSchedule
  /\ content = [i \in DOMAIN fs |-> [digest |-> i, size |-> i, readable |-> TRUE]]

NextInPlace == Organize \/ UndoNothing \/ UndoLast

SpecInPlace == InitInPlace /\ [][NextInPlace]_vars

\* ------------------------------------------------------------------ scans
\* get_file_hash: the digest of what open(path) reads, through links; None
\* (ok = FALSE) when the file cannot be opened
get_file_hash(st, cont, path) ==
  IF IsFile(st, path) /\ cont[FileAt(st, path)].readable
  THEN [ok |-> TRUE, h |-> cont[FileAt(st, path)].digest]
  ELSE [ok |-> FALSE, h |-> 0]

\* hash_map.setdefault(h, []).append(str(f)): hash_map is the dictionary in
\* the order its keys were inserted, a sequence of [h, paths]
setdefault_append(hash_map, h, f) ==
  IF \E n \in DOMAIN hash_map : hash_map[n].h = h
  THEN [n \in DOMAIN hash_map |->
          IF hash_map[n].h = h
          THEN [hash_map[n] EXCEPT !.paths = Append(@, f)]
          ELSE hash_map[n]]
  ELSE Append(hash_map, [h |-> h, paths |-> <<f>>])

\* a plausible bug: every group is reported
is_any_group(paths) == Len(paths) > 0

\* "if len(paths) > 1" of find_duplicates
is_duplicate_group(paths) == Len(paths) > 1

\* the for-loop of find_duplicates from file k on
RECURSIVE hash_loop(_, _, _, _, _)
hash_loop(st, cont, files, k, hash_map) ==
  IF k > Len(files) THEN hash_map
  ELSE LET got == get_file_hash(st, cont, files[k])
       IN  hash_loop(st, cont, files, k + 1,
                     IF got.ok THEN setdefault_append(hash_map, got.h, files[k])
                     ELSE hash_map)

\* find_duplicates: files is list_files' result in the order it was given
find_duplicates(st, cont, files) ==
  LET hash_map == hash_loop(st, cont, files, 1, <<>>)
      keep == { n \in DOMAIN hash_map : is_duplicate_group(hash_map[n].paths) }
      RECURSIVE Kept(_)
      Kept(n) == IF n > Len(hash_map) THEN <<>>
                 ELSE IF n \in keep THEN <<hash_map[n]>> \o Kept(n + 1)
                 ELSE Kept(n + 1)
  IN  Kept(1)

\* round(total_size / (1024 * 1024), 2), in hundredths of a megabyte
RoundMb(total_size) == (total_size * 100 + 524288) \div 1048576

\* the for-loop of gather_stats_for_dashboard from file k on; statFails are
\* the files whose f.stat() raises (they went away after the enumeration)
RECURSIVE stats_loop(_, _, _, _, _, _, _)
stats_loop(st, cont, ext_map_, files, k, statFails, acc) ==
  IF k > Len(files) THEN acc
  ELSE
    LET f == files[k]
        cat == find_category_by_ext(ext_map_, Suffix(Name(f)))
        sized == f \notin statFails /\ Exists(st, f)
    IN  stats_loop(st, cont, ext_map_, files, k + 1, statFails,
                   [counts |-> [acc.counts EXCEPT ![cat] = @ + 1],
                    total_files |-> acc.total_files + 1,
                    total_size |-> acc.total_size +
                                     (IF sized THEN cont[FileAt(st, f)].size ELSE 0)])

\* a plausible bug: the fallback category is given no count
initial_counts_mapped(ext_map_) ==
  [c \in { ext_map_[n][1] : n \in DOMAIN ext_map_ } |-> 0]

\* counts = {cat: 0 for cat in ext_map.keys()}; counts[DEFAULT_OTHER] = 0
initial_counts(ext_map_) ==
  [c \in { ext_map_[n][1] : n \in DOMAIN ext_map_ } \cup {DEFAULT_OTHER} |-> 0]

\* gather_stats_for_dashboard
gather_stats_for_dashboard(st, cont, ext_map_, files, statFails) ==
  LET acc == stats_loop(st, cont, ext_map_, files, 1, statFails,
                        [counts |-> initial_counts(ext_map_),
                         total_files |-> 0,
                         total_size |-> 0])
  IN  [total_files |-> acc.total_files,
       total_size_mb |-> RoundMb(acc.total_size),
       counts |-> acc.counts]

\* the folder a scan is run on
D_JPG == Nm("d", ".JPG")
E_MD == Nm("e", ".Md")

ScanCand(i) ==
  CASE i = 1 -> { <<Absent, Absent>>, <<<<Root[1], A_JPG>>, Absent>> }
    [] i = 2 -> { <<Absent, Absent>>, <<<<Root[1], B_TXT>>, Absent>> }
    [] i = 3 -> { <<Absent, Absent>>, <<<<Root[1], SUB, C_XYZ>>, Absent>>,
                  <<<<Root[1], L_JPG>>, <<Root[1], A_JPG>>>> }
    [] i = 4 -> { <<Absent, Absent>>, <<<<Root[1], D_JPG>>, Absent>> }
    [] OTHER -> { <<Absent, Absent>>, <<<<Root[1], SUB, E_MD>>, Absent>> }

ScanSize(i) == IF i = 2 THEN 5000 ELSE i * 1048576

ScanConfigs ==
  { NoConfig,
    [kind |-> "mapping", data |-> << <<"Pictures", {"JPG"}>> >>] }

InitScan ==
  /\ \E e \in [1..MaxScanFiles -> UNION { ScanCand(i) : i \in 1..MaxScanFiles }] :
       /\ \A i \in 1..MaxScanFiles : e[i] \in ScanCand(i)
       /\ fs = [i \in 1..MaxScanFiles |-> e[i][1]]
       /\ lnk = [i \in 1..MaxScanFiles |-> e[i][2]]
  /\ WellFormedOn(fs)
  /\ dirs = {Root} \cup UNION { Ancestors(Parent(fs[i])) : i \in DOMAIN fs }
  /\ \E d \in [1..MaxScanFiles -> 1..2], r \in [1..MaxScanFiles -> BOOLEAN] :
       /\ \A i \in 1..MaxScanFiles :
            (fs[i] = Absent \/ lnk[i] # Absent) => d[i] = 1 /\ r[i]
       /\ content = [i \in 1..MaxScanFiles |->
                       [digest |-> d[i], size |-> ScanSize(i), readable |-> r[i]]]
  /\ config \in ScanConfigs
  /\ self_ext_map = load_config(config)
  /\ hist = <<>>
  /\ last = NoOp(fs, lnk, dirs, hist)
  /\ opCount = 0
  /\ extCount = 0
  /\ faults = 0
  /\ threads = Quiescent
  /\ art = "list"
  /\ sched = NoSchedule

\* Find Duplicates on the root folder: last.result is the dictionary
\* returned, a sequence of [h, paths]
FindDuplicates ==
  /\ opCount = 0
  /\ \E recursive \in BOOLEAN :
       \E files \in Orders(list_files(Cur, Root, recursive).files) :
         last' = [NoOp(fs, lnk, dirs, hist) EXCEPT
                    !.op = "duplicates", !.target = Root, !.recursive = recursive,
                    !.files = files, !.outcome = "completed",
                    !.result = find_duplicates(Cur, content, files)]
  /\ opCount' = 1
  /\ UNCHANGED <<fs, lnk, dirs, hist, extCount, faults, threads, config,
                 self_ext_map, art, content, sched>>

\* View Dashboard on the root folder: last.arg is the set of files whose
\* size could not be read, last.result the statistics returned
Dashboard ==
  /\ opCount = 0
  /\ \E recursive \in BOOLEAN :
       \E files \in Orders(list_files(Cur, Root, recursive).files) :
         \E statFails \in SUBSET { files[k] : k \in DOMAIN files } :
           /\ Cardinality(statFails) <= MaxFaults
           /\ last' = [NoOp(fs, lnk, dirs, hist) EXCEPT
                         !.op = "dashboard", !.target = Root, !.recursive = recursive,
                         !.files = files, !.outcome = "completed",
                         !.arg = statFails,
                         !.result = gather_stats_for_dashboard(
                                      Cur, content, self_ext_map, files, statFails)]
           /\ faults' = faults + Cardinality(statFails)
  /\ opCount' = 1
  /\ UNCHANGED <<fs, lnk, dirs, hist, extCount, threads, config,
                 self_ext_map, art, content, sched>>

NextScan == FindDuplicates \/ Dashboard

SpecScan == InitScan /\ [][NextScan]_vars

\* ------------------------------------------------------------ threads
\* run_organize starts one worker thread per click and per firing of the
\* recurring timer; undo_last runs on the caller's thread.  Each of them
\* loads the history, changes its own copy and saves it, and nothing keeps
\* another thread from running between the load and the save.
Front(h) == SubSeq(h, 1, Len(h) - 1)

\* worker w runs organize_by_type / organize_by_date on the root folder; a
\* run that raised, moved nothing or was dry ends the worker
WorkerOrganize(w) ==
  /\ threads.w[w].pc = "idle"
  /\ opCount < MaxConcOps
  /\ \E mode \in {"type", "date"}, dry \in BOOLEAN, recursive \in BOOLEAN :
       LET listed == list_files(Cur, Root, recursive) IN
       \E files \in Orders(listed.files) :
         \E r \in { organize(Cur, listed, files,
                             [target |-> Root, mode |-> mode, dry |-> dry,
                              failAt |-> 0]) } :
           /\ fs' = r.st.fs
           /\ lnk' = r.st.lnk
           /\ dirs' = r.st.dirs
           /\ threads' = [threads EXCEPT !.w[w] =
                            IF ~r.raised /\ persist_run(r.moves, dry)
                            THEN [Idle EXCEPT !.pc = "load",
                                              !.run = RunRecord(Root, r.moves)]
                            ELSE Idle]
           /\ opCount' = opCount + 1
           /\ UNCHANGED <<hist, last, extCount, faults, config, self_ext_map, art, content, sched>>

\* history = load_move_history(); history.append(run)
WorkerLoad(w) ==
  /\ threads.w[w].pc = "load"
  /\ threads' = [threads EXCEPT !.w[w].pc = "save",
                                !.w[w].loaded = hist,
                                !.w[w].local = history_append(hist, threads.w[w].run)]
  /\ UNCHANGED <<fs, lnk, dirs, hist, last, opCount, extCount, faults, config, self_ext_map, art, content, sched>>

\* save_move_history(history)
WorkerSave(w) ==
  /\ threads.w[w].pc = "save"
  /\ hist' = threads.w[w].local
  /\ threads' = [threads EXCEPT !.w[w] = Idle,
                                !.saves = @ + 1,
                                !.stale = @ \/ hist # threads.w[w].loaded]
  /\ UNCHANGED <<fs, lnk, dirs, last, opCount, extCount, faults, config, self_ext_map, art, content, sched>>

\* undo_last: history = load_move_history(); "No history", or last = pop()
UndoLoad ==
  /\ threads.u.pc = "idle"
  /\ opCount < MaxConcOps
  /\ threads' = IF hist = <<>> THEN threads
                ELSE [threads EXCEPT !.u = [pc |-> "restore",
                                            run |-> hist[Len(hist)],
                                            loaded |-> hist,
                                            local |-> Front(hist)]]
  /\ opCount' = opCount + 1
  /\ UNCHANGED <<fs, lnk, dirs, hist, last, extCount, faults, config, self_ext_map, art, content, sched>>

\* undo_last: the loop over reversed(moves); an exception ends undo_last
UndoRestore ==
  /\ threads.u.pc = "restore"
  /\ \E r \in { undo_moves(Cur, threads.u.run.moves, 0) } :
       /\ fs' = r.st.fs
       /\ lnk' = r.st.lnk
       /\ dirs' = r.st.dirs
       /\ threads' = [threads EXCEPT !.u = IF r.raised THEN Idle
                                           ELSE [@ EXCEPT !.pc = "save"]]
  /\ UNCHANGED <<hist, last, opCount, extCount, faults, config, self_ext_map, art, content, sched>>

\* undo_last: save_move_history(history)
UndoSave ==
  /\ threads.u.pc = "save"
  /\ hist' = threads.u.local
  /\ threads' = [threads EXCEPT !.u = Idle,
                                !.pops = @ + 1,
                                !.stale = @ \/ hist # threads.u.loaded]
  /\ UNCHANGED <<fs, lnk, dirs, last, opCount, extCount, faults, config, self_ext_map, art, content, sched>>

NextConcurrent ==
  \/ \E w \in 1..MaxWorkers : WorkerOrganize(w) \/ WorkerLoad(w) \/ WorkerSave(w)
  \/ UndoLoad
  \/ UndoRestore
  \/ UndoSave

SpecConcurrent == Init /\ [][NextConcurrent]_vars

\* -------------------------------------------------------------- scheduler
\* A threading.Timer is "waiting" inside finished.wait(interval),
\* "cancelled" once cancel() set finished before the wait ended, "firing"
\* once the wait ended with finished not set and task() was called,
\* "called" once task() has called run_organize and not yet
\* _schedule_task, "done" after that.  cancel() on a timer that is no
\* longer waiting changes nothing.
Timer(delay_seconds) == [state |-> "waiting", delay |-> delay_seconds]

cancel(timers, t) ==
  IF timers[t].state = "waiting" THEN [timers EXCEPT ![t].state = "cancelled"]
  ELSE timers

\* _schedule_task: a new started Timer becomes self.scheduled_task
schedule_task(s, delay_seconds) ==
  [s EXCEPT !.timers = Append(@, Timer(delay_seconds)),
            !.scheduled_task = Len(s.timers) + 1]

SchedOp(name, delay_seconds) ==
  [NoOp(fs, lnk, dirs, hist) EXCEPT !.op = name, !.count = delay_seconds]

UnchangedFiles ==
  UNCHANGED <<fs, lnk, dirs, hist, opCount, extCount, faults, threads, config,
              self_ext_map, art, content>>

\* browse_folder: a target folder is chosen
BrowseFolder ==
  /\ ~sched.current_target
  /\ sched' = [sched EXCEPT !.current_target = TRUE]
  /\ last' = SchedOp("browse", 0)
  /\ UnchangedFiles

\* schedule_organizer_gui without a target folder, or with the dialog
\* dismissed: nothing is scheduled
ScheduleNothing ==
  /\ sched.gui.pc = "idle"
  /\ sched' = sched
  /\ last' = SchedOp("schedule_nothing", 0)
  /\ UnchangedFiles

\* schedule_organizer_gui up to the cancel of the timer in
\* self.scheduled_task
ScheduleCancel ==
  /\ sched.gui.pc = "idle"
  /\ sched.current_target
  /\ Len(sched.timers) < MaxTimers
  /\ \E minutes \in 1..MaxMinutes :
       /\ sched' = [sched EXCEPT
                      !.timers = IF sched.scheduled_task # 0
                                 THEN cancel(@, sched.scheduled_task) ELSE @,
                      !.gui = [pc |-> "schedule", minutes |-> minutes]]
       /\ last' = SchedOp("cancel", minutes * 60)
  /\ UnchangedFiles

\* schedule_organizer_gui from the log line on: _schedule_task(minutes*60)
ScheduleStart ==
  /\ sched.gui.pc = "schedule"
  /\ Len(sched.timers) < MaxTimers
  /\ sched' = [schedule_task(sched, sched.gui.minutes * 60) EXCEPT
                 !.gui = [pc |-> "idle", minutes |-> 0],
                 !.interval = sched.gui.minutes * 60]
  /\ last' = SchedOp("schedule", sched.gui.minutes * 60)
  /\ UnchangedFiles

\* a timer's wait ends and its thread calls task()
TimerFires(t) ==
  /\ t \in DOMAIN sched.timers
  /\ sched.timers[t].state = "waiting"
  /\ sched' = [sched EXCEPT !.timers[t].state = "firing"]
  /\ last' = SchedOp("fire", sched.timers[t].delay)
  /\ UnchangedFiles

\* task() calls run_organize, which starts a worker thread on the target
TaskRunOrganize(t) ==
  /\ t \in DOMAIN sched.timers
  /\ sched.timers[t].state = "firing"
  /\ sched' = [sched EXCEPT !.timers[t].state = "called"]
  /\ last' = SchedOp("scheduled_run", sched.timers[t].delay)
  /\ UnchangedFiles

\* task() calls _schedule_task with its own delay
TaskReschedule(t) ==
  /\ t \in DOMAIN sched.timers
  /\ sched.timers[t].state = "called"
  /\ Len(sched.timers) < MaxTimers
  /\ sched' = [schedule_task(sched, sched.timers[t].delay) EXCEPT
                 !.timers[t].state = "done"]
  /\ last' = SchedOp("reschedule", sched.timers[t].delay)
  /\ UnchangedFiles

NextScheduler ==
  \/ BrowseFolder
  \/ ScheduleNothing
  \/ ScheduleCancel
  \/ ScheduleStart
  \/ \E t \in 1..MaxTimers : TimerFires(t)
  \/ \E t \in 1..MaxTimers : TaskRunOrganize(t)
  \/ \E t \in 1..MaxTimers : TaskReschedule(t)

\* the program started on an empty folder, nothing scheduled
InitScheduler ==
  /\ fs = [i \in FileIds |-> Absent]
  /\ lnk = [i \in FileIds |-> Absent]
  /\ dirs = {Root}
  /\ hist = <<>>
  /\ last = NoOp(fs, lnk, dirs, hist)
  /\ opCount = 0
  /\ extCount = 0
  /\ faults = 0
  /\ threads = Quiescent
  /\ config = NoConfig
  /\ self_ext_map = load_config(config)
  /\ art = "list"
  /\ sched = NoSchedule
  /\ content = [i \in DOMAIN fs |-> [digest |-> i, size |-> i, readable |-> TRUE]]

SpecScheduler == InitScheduler /\ [][NextScheduler]_vars

\* --------------------------------------------------- the path allocator
\* make_unique_path on its own: a folder in which a.jpg, a_1.jpg, ... are
\* each free, a regular file, a link to a path where nothing is, or a folder
SlotKinds == {"free", "file", "dangling", "dir"}

SlotPath(k) == IF k = 0 THEN <<Root[1], A_JPG>>
               ELSE <<Root[1], WithCounter(A_JPG, k)>>

InitUnique ==
  /\ \E kind \in [0..MaxSlots -> SlotKinds] :
       /\ fs = [i \in 1..(MaxSlots + 1) |->
                 IF kind[i - 1] \in {"file", "dangling"} THEN SlotPath(i - 1) ELSE Absent]
       /\ lnk = [i \in 1..(MaxSlots + 1) |->
                  IF kind[i - 1] = "dangling" THEN <<Root[1], GONE>> ELSE Absent]
       /\ dirs = {Root} \cup { SlotPath(k) : k \in { j \in 0..MaxSlots : kind[j] = "dir" } }
  /\ hist = <<>>
  /\ last = NoOp(fs, lnk, dirs, hist)
  /\ opCount = 0
  /\ extCount = 0
  /\ faults = 0
  /\ threads = Quiescent
  /\ config = NoConfig
  /\ self_ext_map = load_config(config)
  /\ art = "list"
  /\ sched = NoSchedule
  /\ content = [i \in DOMAIN fs |-> [digest |-> i, size |-> i, readable |-> TRUE]]

\* a caller asks for a path: last.target is the path desired, last.result
\* the path returned
UniquePath ==
  /\ opCount = 0
  /\ \E dest \in { SlotPath(0), SlotPath(1), <<Root[1], B_TXT>> } :
       last' = [NoOp(fs, lnk, dirs, hist) EXCEPT
                  !.op = "unique", !.target = dest,
                  !.result = make_unique_path(Cur, dest)]
  /\ opCount' = 1
  /\ UNCHANGED <<fs, lnk, dirs, hist, extCount, faults, threads, config, self_ext_map, art, content, sched>>

SpecUnique == InitUnique /\ [][UniquePath]_vars

\* --------------------------------------------------------- the classifier
\* find_category_by_ext on its own, on the map load_config made of a
\* config.json written with these categories and extensions
ConfigCategories == {"Images", "Pictures", "Documents"}
ConfigExts == {".jpg", "JPG", ".TXT", "txt", ".Md"}
LookupExts == {".jpg", ".JPG", ".Jpg", ".txt", ".TXT", ".md", ".xyz", ""}

ConfigFiles ==
  { NoConfig, [kind |-> "malformed", data |-> <<>>] } \cup
  { [kind |-> "mapping", data |-> d] :
      d \in { m \in UNION { [1..n -> ConfigCategories \X
                                      { E \in SUBSET ConfigExts :
                                          Cardinality(E) <= MaxExtsPerCategory }] :
                              n \in 0..MaxCategories } :
                \A i, j \in DOMAIN m : i # j => m[i][1] # m[j][1] } }

InitClassifier ==
  /\ config \in ConfigFiles
  /\ self_ext_map = load_config(config)
  /\ fs = [i \in FileIds |-> Absent]
  /\ lnk = [i \in FileIds |-> Absent]
  /\ dirs = {Root}
  /\ hist = <<>>
  /\ last = NoOp(fs, lnk, dirs, hist)
  /\ opCount = 0
  /\ extCount = 0
  /\ faults = 0
  /\ threads = Quiescent
  /\ art = "list"
  /\ sched = NoSchedule
  /\ content = [i \in FileIds |-> [digest |-> i, size |-> i, readable |-> TRUE]]

\* a caller asks for the category of an extension: last.arg is the
\* extension, last.result the category
Classify ==
  /\ opCount = 0
  /\ \E ext \in LookupExts :
       last' = [NoOp(fs, lnk, dirs, hist) EXCEPT
                  !.op = "classify", !.arg = ext,
                  !.result = find_category_by_ext(self_ext_map, ext)]
  /\ opCount' = 1
  /\ UNCHANGED <<fs, lnk, dirs, hist, extCount, faults, threads, config,
                 self_ext_map, art, content, sched>>

SpecClassifier == InitClassifier /\ [][Classify]_vars

\* ----------------------------------------------------------------- claims
Before == [fs |-> last.fsBefore, lnk |-> last.lnkBefore, dirs |-> last.dirsBefore]

\* q is p with one counter appended to the stem: stem_<n><suffix> beside p
IsDisambiguated(q, p) ==
  /\ q # Absent
  /\ Parent(q) = Parent(p)
  /\ \E n \in 1..(MaxFiles + 1) : q = Join(Parent(p), WithCounter(Name(p), n))

\* the candidates stem_<n><suffix> of make_unique_path for path p
Candidate(p, n) == Join(Parent(p), WithCounter(Name(p), n))

\* C1: a non-dry organize followed immediately by undo_last puts every file
\* the organize moved back at its source path (or at a stem_<n><suffix>
\* sibling when the source path is occupied) and leaves the history as it
\* was before the organize.
RoundTrip ==
  [][ (last.op = "organize" /\ ~last.dry /\ last'.op = "undo")
      => /\ hist' = last.histBefore
         /\ \A k \in 1..Len(last.performed) :
              LET src == last.performed[k].src
                  i == EntryAt(Before, src)
              IN  \/ fs'[i] = src
                  \/ /\ IsDisambiguated(fs'[i], src)
                     /\ LExists([fs |-> fs', lnk |-> lnk', dirs |-> dirs'], src) ]_vars

\* C2: every move a non-dry organize performed on the filesystem is held by
\* a run of the persisted history.
JournalComplete ==
  (last.op = "organize" /\ ~last.dry)
    => \A k \in 1..Len(last.performed) :
         \E n \in 1..Len(hist) : \E j \in 1..Len(hist[n].moves) :
           hist[n].moves[j] = last.performed[k]

\* C3: when one file of an organize fails, the loop still reaches every
\* enumerated file and the returned records are exactly the moves done.
OrganizeBestEffort ==
  (last.op = "organize" /\ ~last.dry /\ IsDir(Before, last.target))
    => /\ last.visited = Len(last.files)
       /\ last.moves = last.performed

\* C4: undo_last on a history with runs reaches every record of the last run
\* and leaves the persisted history without that run.
UndoBestEffort ==
  (last.op = "undo" /\ last.histBefore # <<>>)
    => /\ last.visited = Len(last.moves)
       /\ hist = SubSeq(last.histBefore, 1, Len(last.histBefore) - 1)

\* C5: whatever occupies a record's source path when undo_last restores the
\* record is still there after the undo, and the restored file was moved to
\* the first free stem_<n><suffix> of the source path instead.
UndoNeverOverwrites ==
  last.op = "undo"
    => \A k \in 1..Len(last.restores) :
         LET r == last.restores[k] IN
         (r.occFile # 0 \/ r.occDir)
           => /\ r.occFile # 0 => fs[r.occFile] = r.src /\ lnk[r.occFile] = r.occLink
              /\ r.occDir => r.src \in dirs
              /\ r.to # r.src
              /\ \E n \in 1..(Cardinality(r.existing) + 1) :
                   /\ r.to = Candidate(r.src, n)
                   /\ r.to \notin r.existing
                   /\ \A m \in 1..(n - 1) : Candidate(r.src, m) \in r.existing

\* C6: the count undo_last reports is the number of records it restored.
UndoCountIsRestored ==
  (last.op = "undo" /\ last.outcome = "restored")
    => last.count = Len(last.restores)

\* C7: a dry-run organize changes neither the files nor the directories.
DryRunMutatesNothing ==
  (last.op = "organize" /\ last.dry)
    => fs = last.fsBefore /\ lnk = last.lnkBefore /\ dirs = last.dirsBefore

\* C8: a dry-run organize leaves the persisted history as it was, and no
\* move record of the persisted history is a dry one.
DryNeverPersisted ==
  /\ (last.op = "organize" /\ last.dry) => hist = last.histBefore
  /\ \A n \in 1..Len(hist) : \A j \in 1..Len(hist[n].moves) : ~hist[n].moves[j].dry

\* C8 happens: a dry run proposed moves while the history holds a run
DryRunWithMoves ==
  /\ last.op = "organize"
  /\ last.dry
  /\ last.moves # <<>>
  /\ hist # <<>>

\* C9: organize on a target that is no directory ends in an error and
\* changes neither the filesystem nor the history.
InvalidTargetIsFatal ==
  (last.op = "organize" /\ ~IsDir(Before, last.target))
    => /\ last.outcome = "error"
       /\ fs = last.fsBefore
       /\ dirs = last.dirsBefore
       /\ hist = last.histBefore

\* C10: after a successful non-dry organize, the same organize run again
\* moves no file and appends no run.
OrganizeIdempotent ==
  [][ ( /\ last.op = "organize" /\ ~last.dry /\ last.outcome = "completed"
        /\ last'.op = "organize" /\ ~last'.dry
        /\ last'.target = last.target
        /\ last'.mode = last.mode
        /\ last'.recursive = last.recursive )
      => fs' = fs /\ hist' = hist ]_vars

\* C11: the history is lost only by interleaving, and interleaving does lose
\* it.  As long as every save wrote over the very history its thread had
\* loaded, the history holds one run per completed worker save less one per
\* completed undo; LostUpdate is the state the claim says is reachable.
LedgerUnlessStale ==
  ~threads.stale => Len(hist) = threads.saves - threads.pops

\* C11 happens: every thread has finished and a run that a worker saved and
\* no undo popped is in the history no more
LostUpdate ==
  /\ \A w \in 1..MaxWorkers : threads.w[w].pc = "idle"
  /\ threads.u.pc = "idle"
  /\ threads.stale
  /\ Len(hist) < threads.saves - threads.pops

\* C12: make_unique_path returns the desired path when nothing is there, and
\* otherwise the stem_<n><suffix> with the smallest n >= 1 at which nothing
\* is; nothing is at the returned path.
UniquePathIsFree ==
  last.op = "unique"
    => LET dest == last.target
           got == last.result
       IN  /\ ~LExists(Cur, got)
           /\ ~LExists(Cur, dest) => got = dest
           /\ LExists(Cur, dest)
                => \E n \in 1..(MaxSlots + 1) :
                     /\ got = Candidate(dest, n)
                     /\ \A m \in 1..(n - 1) : LExists(Cur, Candidate(dest, m))

\* C13: find_category_by_ext returns the first category, in the order of the
\* map, that holds the extension, "Others" when none holds it, and the same
\* category for every spelling of the extension in upper and lower case.
FirstMatchAnyCase ==
  last.op = "classify"
    => LET hits == { k \in DOMAIN self_ext_map :
                       \E e \in self_ext_map[k][2] : Lower(e) = Lower(last.arg) }
       IN  /\ hits = {} => last.result = DEFAULT_OTHER
           /\ hits # {} => \E k \in hits : /\ last.result = self_ext_map[k][1]
                                           /\ \A j \in hits : k <= j
           /\ \A other \in LookupExts :
                Lower(other) = Lower(last.arg)
                  => find_category_by_ext(self_ext_map, other) = last.result

\* C13 happens: an extension spelled in upper case was found in the second
\* of two categories that both hold it in the written mapping
SecondSpellingFirstMatch ==
  /\ last.op = "classify"
  /\ last.arg = ".JPG"
  /\ Len(self_ext_map) = 2
  /\ ".jpg" \in self_ext_map[1][2] /\ ".jpg" \in self_ext_map[2][2]
  /\ last.result = self_ext_map[1][1]

\* C14: after a non-dry organize by type that completed, the records are one
\* per enumerated file, in the order of the enumeration, each from the file's
\* path to target / category / name or to the first free stem_<n><suffix> of
\* it; every file has left its source path and lies at its destination, and
\* no two destinations are the same.
ByTypePostcondition ==
  (last.op = "organize" /\ last.mode = "type" /\ ~last.dry /\ last.outcome = "completed")
    => /\ Len(last.moves) = Len(last.files)
       /\ \A k \in 1..Len(last.moves) :
            LET f == last.files[k]
                want == Join(Join(last.target,
                                  Nm(find_category_by_ext(self_ext_map, Suffix(Name(f))), "")),
                             Name(f))
                dst == last.moves[k].dst
            IN  /\ last.moves[k].src = f
                /\ \/ dst = want
                   \/ /\ want \in last.taken[k]
                      /\ \E n \in 1..(Cardinality(last.taken[k]) + 1) :
                           /\ dst = Candidate(want, n)
                           /\ dst \notin last.taken[k]
                           /\ \A m \in 1..(n - 1) : Candidate(want, m) \in last.taken[k]
                /\ dst # f
                /\ fs[EntryAt(Before, f)] = dst
       /\ \A j, k \in 1..Len(last.moves) :
            j # k => last.moves[j].dst # last.moves[k].dst

\* the enumerated files that can be read and have the digest h
ReadableWith(h) ==
  { last.files[k] : k \in { j \in DOMAIN last.files :
                              /\ get_file_hash(Cur, content, last.files[j]).ok
                              /\ get_file_hash(Cur, content, last.files[j]).h = h } }

\* C15: find_duplicates returns exactly the digests that two or more
\* enumerated readable files share, each once with exactly those files; a
\* file that cannot be read is in no group and does not end the scan.
DuplicateGroupsExact ==
  last.op = "duplicates"
    => LET groups == last.result IN
       /\ last.outcome = "completed"
       /\ \A n \in DOMAIN groups :
            /\ Len(groups[n].paths) >= 2
            /\ { groups[n].paths[k] : k \in DOMAIN groups[n].paths } = ReadableWith(groups[n].h)
            /\ Cardinality(ReadableWith(groups[n].h)) = Len(groups[n].paths)
       /\ \A m, n \in DOMAIN groups : m # n => groups[m].h # groups[n].h
       /\ \A k \in DOMAIN last.files :
            LET got == get_file_hash(Cur, content, last.files[k])
                grouped == \E n \in DOMAIN groups : \E j \in DOMAIN groups[n].paths :
                             groups[n].paths[j] = last.files[k]
            IN  /\ ~got.ok => ~grouped
                /\ got.ok => (grouped <=> Cardinality(ReadableWith(got.h)) >= 2)

\* C15 happens: a group was returned while a file that cannot be read was
\* enumerated
GroupAndSkipped ==
  /\ last.op = "duplicates"
  /\ Len(last.result) = 1
  /\ \E k \in DOMAIN last.files : ~get_file_hash(Cur, content, last.files[k]).ok

RECURSIVE SumOver(_, _)
SumOver(S, f) ==
  IF S = {} THEN 0
  ELSE LET x == CHOOSE y \in S : TRUE IN f[x] + SumOver(S \ {x}, f)

\* C16: gather_stats_for_dashboard counts every enumerated file once, in the
\* category of its extension; the total is the number of enumerated files
\* and the sum of the counts; every category of the map and "Others" has a
\* count; a file whose size cannot be read is counted and adds no size; and
\* neither the filesystem nor the history changes.
StatsCountEveryFileOnce ==
  last.op = "dashboard"
    => LET stats == last.result
           cats == { self_ext_map[n][1] : n \in DOMAIN self_ext_map } \cup {DEFAULT_OTHER}
           InCat(c) == { k \in DOMAIN last.files :
                           find_category_by_ext(self_ext_map, Suffix(Name(last.files[k]))) = c }
           sizeOf == [k \in DOMAIN last.files |->
                        IF last.files[k] \in last.arg THEN 0
                        ELSE content[FileAt(Cur, last.files[k])].size]
       IN  /\ DOMAIN stats.counts = cats
           /\ \A c \in cats : stats.counts[c] = Cardinality(InCat(c))
           /\ stats.total_files = Len(last.files)
           /\ stats.total_files = SumOver(cats, stats.counts)
           /\ stats.total_size_mb = RoundMb(SumOver(DOMAIN last.files, sizeOf))
           /\ fs = last.fsBefore /\ lnk = last.lnkBefore /\ dirs = last.dirsBefore
           /\ hist = last.histBefore

\* C16 happens: files of two categories were counted, one of them with a
\* size that could not be read
StatsWithUnreadSize ==
  /\ last.op = "dashboard"
  /\ last.arg # {}
  /\ Len(last.files) >= 3
  /\ \E c \in DOMAIN last.result.counts :
       c # DEFAULT_OTHER /\ last.result.counts[c] >= 1
  /\ last.result.counts[DEFAULT_OTHER] >= 1

\* C17: a history file that is missing or does not hold a list of runs is
\* read as the empty history: a non-dry organize that moves something then
\* completes and leaves a history of exactly its own run, and an undo_last
\* then reports that there is nothing to undo
ArtifactRecovered ==
  /\ ( /\ last.op = "organize" /\ last.artBefore # "list"
       /\ ~last.dry /\ ~last.raised /\ ~last.saveFailed /\ last.moves # <<>> )
     => ( /\ last.outcome = "completed"
          /\ art = "list"
          /\ hist = << RunRecord(last.target, last.moves) >> )
  /\ (last.op = "undo" /\ last.artBefore # "list") => last.outcome = "nohistory"

\* C18: an organize leaves the persisted history as it was or with one run,
\* its own, appended; an undo_last leaves it as it was or without its last
\* run; an undo_last on an empty history leaves it empty and the files
\* where they were
HistoryAppendOnly ==
  /\ last.op = "organize" =>
       \/ hist = last.histBefore
       \/ hist = Append(last.histBefore, RunRecord(last.target, last.moves))
  /\ last.op = "undo" =>
       \/ hist = last.histBefore
       \/ last.histBefore # <<>> /\ hist = Front(last.histBefore)
  /\ (last.op = "undo" /\ last.histBefore = <<>>) =>
       hist = <<>> /\ Cur = Before

\* C19: what organize, Find Duplicates and the dashboard enumerate, move and
\* record are regular files, never a symbolic link or a directory; without
\* recursion they are immediate children of the target, and the files
\* below its subdirectories stay where they are
EnumeratesRegularFilesOnly ==
  last.op \in {"organize", "duplicates", "dashboard"} =>
    /\ \A k \in DOMAIN last.files :
         /\ last.files[k] \in EntryPaths(Before)
         /\ ~IsLink(Before, last.files[k])
    /\ \A k \in DOMAIN last.performed :
         /\ last.performed[k].src \in EntryPaths(Before)
         /\ ~IsLink(Before, last.performed[k].src)
    /\ ~last.recursive =>
         /\ \A k \in DOMAIN last.files : Parent(last.files[k]) = last.target
         /\ \A i \in DOMAIN fs :
              ( /\ last.fsBefore[i] # Absent
                /\ last.lnkBefore[i] = Absent
                /\ IsPrefix(last.target, Parent(last.fsBefore[i])) )
              => fs[i] = last.fsBefore[i]

\* C20: as long as the operating system refused nothing and nobody else
\* touched the folder, an organize or an undo_last removes no entry, adds
\* none and changes none, and each of its moves went to a path where
\* nothing was at the moment of the move
FilesConserved ==
  (faults = 0 /\ extCount = 0 /\ last.op \in {"organize", "undo"}) =>
    /\ \A i \in DOMAIN fs :
         /\ (last.fsBefore[i] = Absent) = (fs[i] = Absent)
         /\ lnk[i] = last.lnkBefore[i]
    /\ last.dry => fs = last.fsBefore
    /\ ~last.dry => \A k \in DOMAIN last.performed :
                      last.performed[k].dst \notin last.taken[k]
    /\ \A k \in DOMAIN last.restores :
         last.restores[k].to \notin last.restores[k].existing

\* the (source, destination) pairs of a list of move records, in order
Pairs(moves) == [k \in DOMAIN moves |-> <<moves[k].src, moves[k].dst>>]

\* C21: the pairs a dry run returns are the pairs that the real run on the
\* same directory, with the same strategy, recursion and enumeration,
\* returns
DryPredictsReal ==
  (last.op = "organize" /\ last.dry /\ ~last.raised) =>
    LET real == organize(Before, list_files(Before, last.target, last.recursive),
                         last.files,
                         [target |-> last.target, mode |-> last.mode,
                          dry |-> FALSE, failAt |-> 0])
    IN  ~real.raised => Pairs(last.moves) = Pairs(real.moves)

\* C22: when n non-dry runs that each moved a file were followed by n calls
\* of undo_last, with nothing else in between and nothing refused, every
\* file is at the path it had before the first run and the history is what
\* it was before the first run
StackedUndo ==
  (last.op = "undo" /\ last.chain.phase = "down" /\ last.chain.depth = 0) =>
    /\ fs = last.chain.origin.fs
    /\ lnk = last.chain.origin.lnk
    /\ hist = last.chain.origin.hist

\* the timers that will still call run_organize or schedule a successor
LiveTimers ==
  { t \in DOMAIN sched.timers : sched.timers[t].state \in {"waiting", "firing", "called"} }

\* C23: once schedule_organizer_gui has returned, one chain of timers at
\* most is pending, it has the interval last asked for, and no scheduled
\* run is started by a timer of another interval
SingleScheduleChain ==
  sched.gui.pc = "idle" =>
    /\ Cardinality(LiveTimers) <= 1
    /\ \A t \in LiveTimers : sched.timers[t].delay = sched.interval
    /\ last.op = "scheduled_run" => last.count = sched.interval
====
